---- MODULE Spec2Model ----
(***************************************************************************)
(* Model of chjj/buffer-map: BufferMap and BufferSet, containers keyed by  *)
(* the byte content of Buffer-like objects.                                *)
(*                                                                         *)
(*   lib/buffer-map.js    the library (impl = "lib")                       *)
(*   work/buffer-map2.js  an earlier version that stores the value only    *)
(*                        and rebuilds key buffers on iteration            *)
(*                        (impl = "work2")                                 *)
(*   unnamed/part_000     an earlier version whose toKey does not check    *)
(*                        the key's type (impl = "draft", lines 1-268)     *)
(*                                                                         *)
(* A JavaScript string is a sequence of UTF-16 code units, a Map is a     *)
(* sequence of slots [k |-> string, v |-> stored value] in insertion      *)
(* order, and an object is a record whose id field is its identity.        *)
(*                                                                         *)
(* Spec, SpecWork2 and SpecDraft run one container of the named version;   *)
(* SpecNorm gives the key normalizer of lib/buffer-map.js a pair of keys   *)
(* and then inserts both into an empty BufferMap.  SpecCtor constructs a   *)
(* container from a sequence (ctor) and repeats the insertions one by one; *)
(* SpecIter consumes an iterator (iter) while the container changes;       *)
(* SpecOrder remembers the order in which contents were first inserted     *)
(* (ever); SpecMirror runs a BufferSet (mirror) beside a BufferMap; and    *)
(* SpecValues stores every kind of value in a BufferMap.                   *)
(***************************************************************************)
EXTENDS Integers, Sequences, FiniteSets, TLC

VARIABLES impl, cls, map, last, norm, ctor, iter, ever, mirror

vars == <<impl, cls, map, last, norm, ctor, iter, ever, mirror>>

(***************************************************************************)
(* Bounds of the model.                                                    *)
(***************************************************************************)
\* largest number of entries a container is filled to
MaxSize == 3
\* longest backing store of the key pairs given to the key normalizer
MaxMem == 2

\* the most items in the sequence given to a constructor
MaxIter == 3

(***************************************************************************)
(* JavaScript values.  Every value is a record, so that any two values     *)
(* can be compared; t is what typeof answers.                              *)
(***************************************************************************)
undefined == [t |-> "undefined"]

JSBool(b) == [t |-> "boolean", b |-> b]

JSString(s) == [t |-> "string", s |-> s]

\* the array [a, b]
Pair(a, b) == [t |-> "object", first |-> a, second |-> b]

\* the container itself, returned by set and add
this == [t |-> "object", self |-> TRUE]

\* the values callers store in a map
Values == {JSString("v1"), JSString("v2")}

JSNumber(n) == [t |-> "number", n |-> n]

JSNull == [t |-> "object", null |-> TRUE]

\* every kind of value a caller may store: the falsy ones and a truthy one
AllValues == {undefined, JSNull, JSBool(FALSE), JSNumber(0), JSString(""), JSString("v1")}

\* !v
Not(v) == v \in {undefined, JSNull, JSBool(FALSE), JSNumber(0), JSString("")}

Range(s) == {s[i] : i \in 1..Len(s)}

\* every sequence over S of length 0..n
RECURSIVE SeqsUpTo(_, _)
SeqsUpTo(S, n) ==
  IF n = 0 THEN {<<>>}
  ELSE LET shorter == SeqsUpTo(S, n - 1)
       IN shorter \cup {Append(s, x) : s \in {t \in shorter : Len(t) = n - 1}, x \in S}

(***************************************************************************)
(* Key objects.  buffer is the whole backing store; a Buffer or a          *)
(* Uint8Array is a window [byteOffset, byteOffset + byteLength) over it,   *)
(* an ArrayBuffer or SharedArrayBuffer is the store itself.  A String      *)
(* keeps its code units in buffer; it has no bytes.                        *)
(***************************************************************************)
Obj(id, kind, mem, off, len) ==
  [id |-> id, kind |-> kind, buffer |-> mem, byteOffset |-> off, byteLength |-> len]

\* no key object; id 0 is the identity of every object the callers did not make
NoKey == Obj(0, "none", <<>>, 0, 0)

ByteKinds == {"Buffer", "Uint8Array", "ArrayBuffer", "SharedArrayBuffer"}

\* the octets a key denotes (the viewed bytes only)
Bytes(key) == [i \in 1..key.byteLength |-> key.buffer[key.byteOffset + i]]

\* the key objects the callers of the containers hold
Keys ==
  { Obj(1, "Buffer",            <<>>,          0, 0),
    Obj(2, "Buffer",            <<0>>,         0, 1),
    Obj(3, "Uint8Array",        <<9, 0, 128>>, 1, 1),
    Obj(4, "SharedArrayBuffer", <<128>>,       0, 1),
    Obj(5, "ArrayBuffer",       <<0, 128>>,    0, 2),
    Obj(6, "String",            <<0>>,         0, 0) }

(***************************************************************************)
(* Host primitives: Buffer and Map.                                        *)
(***************************************************************************)
isBuffer(key) == key.kind = "Buffer"

isView(key) == key.kind \in {"Buffer", "Uint8Array"}

\* Buffer.from(arrayBuffer, byteOffset, length): a new Buffer over the same memory
BufferFrom(mem, off, len) == Obj(0, "Buffer", mem, off, len)

\* buf.toString('ascii'): the high bit of every octet is dropped
asciiSlice(buf) == [i \in 1..buf.byteLength |-> buf.buffer[buf.byteOffset + i] % 128]

\* buf.toString('binary'): octet b becomes the code unit U+00b
latin1Slice(buf) == [i \in 1..buf.byteLength |-> buf.buffer[buf.byteOffset + i]]

\* buf.toString('hex'): two lower-case hexadecimal digits per octet
HexDigit(n) == IF n < 10 THEN 48 + n ELSE 87 + n

RECURSIVE hexSlice(_)
hexSlice(buf) ==
  IF buf.byteLength = 0 THEN <<>>
  ELSE hexSlice([buf EXCEPT !.byteLength = @ - 1])
       \o <<HexDigit(buf.buffer[buf.byteOffset + buf.byteLength] \div 16),
            HexDigit(buf.buffer[buf.byteOffset + buf.byteLength] % 16)>>

\* buf.toString(encoding)
BufferToString(buf, encoding) ==
  IF encoding = "hex" THEN hexSlice(buf) ELSE latin1Slice(buf)

MapIndex(m, s) ==
  IF \E i \in 1..Len(m) : m[i].k = s
  THEN CHOOSE i \in 1..Len(m) : m[i].k = s
  ELSE 0

MapHas(m, s) == MapIndex(m, s) # 0

MapGet(m, s) == IF MapHas(m, s) THEN m[MapIndex(m, s)].v ELSE undefined

\* a Map.prototype.set that moves an existing slot to the end
MapSetMoveLast(m, s, v) ==
  Append(SelectSeq(m, LAMBDA e : e.k # s), [k |-> s, v |-> v])

\* a Map that puts a new slot first
MapSetPrepend(m, s, v) ==
  IF MapHas(m, s)
  THEN [m EXCEPT ![MapIndex(m, s)] = [k |-> s, v |-> v]]
  ELSE <<[k |-> s, v |-> v]>> \o m

\* a Map.prototype.set that never finds an existing slot
MapSetAppend(m, s, v) == Append(m, [k |-> s, v |-> v])

\* Map.prototype.set: an existing slot keeps its place, a new one goes last
MapSet(m, s, v) ==
  IF MapHas(m, s)
  THEN [m EXCEPT ![MapIndex(m, s)] = [k |-> s, v |-> v]]
  ELSE Append(m, [k |-> s, v |-> v])

\* a delete that fills the hole with the last slot
MapDeleteSwap(m, s) ==
  IF ~MapHas(m, s) THEN m
  ELSE IF MapIndex(m, s) = Len(m) THEN SubSeq(m, 1, Len(m) - 1)
  ELSE SubSeq([m EXCEPT ![MapIndex(m, s)] = m[Len(m)]], 1, Len(m) - 1)

\* Map.prototype.delete
MapDelete(m, s) == SelectSeq(m, LAMBDA e : e.k # s)

\* Map.prototype.values, consumed to the end
MapValues(m) == [i \in 1..Len(m) |-> m[i].v]

(***************************************************************************)
(* lib/buffer-map.js: helpers.                                             *)
(***************************************************************************)
isArrayBuffer(key) == key.kind \in {"ArrayBuffer", "SharedArrayBuffer"}

\* a toBuffer that wraps the whole backing store of a view
toBufferWhole(key) ==
  IF isView(key)
  THEN [err |-> "none", buf |-> BufferFrom(key.buffer, 0, Len(key.buffer))]
  ELSE IF isArrayBuffer(key)
  THEN [err |-> "none", buf |-> BufferFrom(key.buffer, 0, key.byteLength)]
  ELSE [err |-> "TypeError", buf |-> NoKey]

toBuffer(key) ==
  IF isView(key)
  THEN [err |-> "none", buf |-> BufferFrom(key.buffer, key.byteOffset, key.byteLength)]
  ELSE IF isArrayBuffer(key)
  THEN [err |-> "none", buf |-> BufferFrom(key.buffer, 0, key.byteLength)]
  ELSE [err |-> "TypeError", buf |-> NoKey]

\* an encode that takes the empty string for a failed conversion
encodeNoEmpty(key, encoding) ==
  LET b == IF ~isBuffer(key) THEN toBuffer(key) ELSE [err |-> "none", buf |-> key]
  IN IF b.err # "none" \/ BufferToString(b.buf, encoding) = <<>>
     THEN [err |-> "TypeError", str |-> <<>>]
     ELSE [err |-> "none", str |-> BufferToString(b.buf, encoding)]

encode(key, encoding) ==
  LET b == IF ~isBuffer(key) THEN toBuffer(key) ELSE [err |-> "none", buf |-> key]
  IN IF b.err # "none" THEN [err |-> b.err, str |-> <<>>]
     ELSE [err |-> "none", str |-> BufferToString(b.buf, encoding)]

toBinary(key) == encode(key, "binary")

toHex(key) == encode(key, "hex")

BufferItem(key, value) == [key |-> key, value |-> value]

(***************************************************************************)
(* lib/buffer-map.js: BufferMap.  Every operation yields the map after     *)
(* the call (map), whether it threw (err), what it returned (ret) and      *)
(* what was there before (old): for set and add, the value the slot held   *)
(* before the call; for clear, whether the Map held any entry.             *)
(***************************************************************************)
Result(m, err, ret, old) == [map |-> m, err |-> err, ret |-> ret, old |-> old]

Threw(m, err) == Result(m, err, undefined, undefined)

BufferMap_size(m) == Len(m)

\* a get that takes a falsy stored value for a missing entry
BufferMap_getByValue(m, key) ==
  LET s == toBinary(key) IN
  IF s.err # "none" THEN Threw(m, s.err)
  ELSE LET item == MapGet(m, s.str)
       IN IF Not(item) \/ Not(item.value) THEN Result(m, "none", undefined, undefined)
          ELSE Result(m, "none", item.value, undefined)

BufferMap_get(m, key) ==
  LET s == toBinary(key) IN
  IF s.err # "none" THEN Threw(m, s.err)
  ELSE LET item == MapGet(m, s.str)
       IN IF Not(item) THEN Result(m, "none", undefined, undefined)
          ELSE Result(m, "none", item.value, undefined)

BufferMap_has(m, key) ==
  LET s == toBinary(key) IN
  IF s.err # "none" THEN Threw(m, s.err)
  ELSE Result(m, "none", JSBool(MapHas(m, s.str)), undefined)

\* a set that keeps the key object of the entry it overwrites
BufferMap_setKeepKey(m, key, value) ==
  LET s == toBinary(key) IN
  IF s.err # "none" THEN Threw(m, s.err)
  ELSE IF MapHas(m, s.str)
  THEN Result(MapSet(m, s.str, BufferItem(MapGet(m, s.str).key, value)), "none", this,
              MapGet(m, s.str))
  ELSE Result(MapSet(m, s.str, BufferItem(key, value)), "none", this, MapGet(m, s.str))

BufferMap_set(m, key, value) ==
  LET s == toBinary(key) IN
  IF s.err # "none" THEN Threw(m, s.err)
  ELSE Result(MapSet(m, s.str, BufferItem(key, value)), "none", this, MapGet(m, s.str))

BufferMap_delete(m, key) ==
  LET s == toBinary(key) IN
  IF s.err # "none" THEN Threw(m, s.err)
  ELSE Result(MapDelete(m, s.str), "none", JSBool(MapHas(m, s.str)), undefined)

\* a clear that deletes by position while it walks the entries, and so
\* passes over every second one
BufferMap_clearSkipping(m) ==
  Result([i \in 1..(Len(m) \div 2) |-> m[2 * i]], "none", undefined, JSBool(Len(m) > 0))

BufferMap_clear(m) == Result(<<>>, "none", undefined, JSBool(Len(m) > 0))

\* the sequences entries(), keys() and values() yield when consumed to the end
BufferMap_entries(m) == [i \in 1..Len(m) |-> Pair(MapValues(m)[i].key, MapValues(m)[i].value)]

BufferMap_keys(m) == [i \in 1..Len(m) |-> MapValues(m)[i].key]

BufferMap_values(m) == [i \in 1..Len(m) |-> MapValues(m)[i].value]

\* a forEach that checks func only when it is about to call it
BufferMap_forEachLateCheck(m, func) ==
  IF Len(m) = 0 THEN Result(m, "none", <<>>, undefined)
  ELSE IF func.t # "function" THEN Threw(m, "TypeError")
  ELSE Result(m, "none",
              [i \in 1..Len(m) |-> <<MapValues(m)[i].value, MapValues(m)[i].key, this>>],
              undefined)

\* a forEach that calls func(key, value, this)
BufferMap_forEachKeyFirst(m, func) ==
  IF func.t # "function" THEN Threw(m, "TypeError")
  ELSE Result(m, "none",
              [i \in 1..Len(m) |-> <<MapValues(m)[i].key, MapValues(m)[i].value, this>>],
              undefined)

\* forEach: the calls func(value, key, this) it makes, in order
BufferMap_forEach(m, func) ==
  IF func.t # "function" THEN Threw(m, "TypeError")
  ELSE Result(m, "none",
              [i \in 1..Len(m) |-> <<MapValues(m)[i].value, MapValues(m)[i].key, this>>],
              undefined)

BufferMap_toKeys(m) == [i \in 1..Len(m) |-> MapValues(m)[i].key]

BufferMap_toValues(m) == [i \in 1..Len(m) |-> MapValues(m)[i].value]

\* a toArray that returns the keys
BufferMap_toArrayOfKeys(m) == BufferMap_toKeys(m)

BufferMap_toArray(m) == BufferMap_toValues(m)

(***************************************************************************)
(* lib/buffer-map.js: BufferSet.                                           *)
(***************************************************************************)
BufferSet_size(m) == Len(m)

BufferSet_has(m, key) ==
  LET s == toBinary(key) IN
  IF s.err # "none" THEN Threw(m, s.err)
  ELSE Result(m, "none", JSBool(MapHas(m, s.str)), undefined)

\* an add that leaves the key object of an entry already present
BufferSet_addKeepKey(m, key) ==
  LET s == toBinary(key) IN
  IF s.err # "none" THEN Threw(m, s.err)
  ELSE IF MapHas(m, s.str) THEN Result(m, "none", this, MapGet(m, s.str))
  ELSE Result(MapSet(m, s.str, key), "none", this, MapGet(m, s.str))

BufferSet_add(m, key) ==
  LET s == toBinary(key) IN
  IF s.err # "none" THEN Threw(m, s.err)
  ELSE Result(MapSet(m, s.str, key), "none", this, MapGet(m, s.str))

BufferSet_delete(m, key) ==
  LET s == toBinary(key) IN
  IF s.err # "none" THEN Threw(m, s.err)
  ELSE Result(MapDelete(m, s.str), "none", JSBool(MapHas(m, s.str)), undefined)

BufferSet_clear(m) == Result(<<>>, "none", undefined, JSBool(Len(m) > 0))

BufferSet_entries(m) == [i \in 1..Len(m) |-> Pair(MapValues(m)[i], MapValues(m)[i])]

BufferSet_keys(m) == MapValues(m)

BufferSet_values(m) == MapValues(m)

BufferSet_forEach(m, func) ==
  IF func.t # "function" THEN Threw(m, "TypeError")
  ELSE Result(m, "none",
              [i \in 1..Len(m) |-> <<MapValues(m)[i], MapValues(m)[i], this>>],
              undefined)

BufferSet_toKeys(m) == MapValues(m)

BufferSet_toValues(m) == BufferSet_toKeys(m)

BufferSet_toArray(m) == BufferSet_toKeys(m)

(***************************************************************************)
(* lib/buffer-map.js: the constructors.  An iterable is an array of        *)
(* [key, value] pairs for a BufferMap and an array of keys for a           *)
(* BufferSet; no argument is undefined.                                    *)
(***************************************************************************)
JSArray(items) == [t |-> "object", items |-> items]

\* an insertion that leaves an entry already present as it is
BufferMap_constructorStepIfAbsent(m, entry) ==
  LET s == toBinary(entry.first) IN
  IF s.err = "none" /\ MapHas(m, s.str) THEN Result(m, "none", this, undefined)
  ELSE BufferMap_set(m, entry.first, entry.second)

\* the loop body: this.set(key, value) on the destructured pair
BufferMap_constructorStep(m, entry) == BufferMap_set(m, entry.first, entry.second)

RECURSIVE BufferMap_constructorLoop(_, _, _)
\* the for-of loop from the i-th item on; a throwing set ends the constructor
BufferMap_constructorLoop(m, items, i) ==
  IF i > Len(items) THEN Result(m, "none", this, undefined)
  ELSE LET r == BufferMap_constructorStep(m, items[i])
       IN IF r.err # "none" THEN Threw(m, r.err)
          ELSE BufferMap_constructorLoop(r.map, items, i + 1)

BufferMap_constructor(iterable) ==
  IF iterable = undefined THEN Result(<<>>, "none", this, undefined)
  ELSE BufferMap_constructorLoop(<<>>, iterable.items, 1)

RECURSIVE BufferSet_constructorLoop(_, _, _)
BufferSet_constructorLoop(m, items, i) ==
  IF i > Len(items) THEN Result(m, "none", this, undefined)
  ELSE LET r == BufferSet_add(m, items[i])
       IN IF r.err # "none" THEN Threw(m, r.err)
          ELSE BufferSet_constructorLoop(r.map, items, i + 1)

BufferSet_constructor(iterable) ==
  IF iterable = undefined THEN Result(<<>>, "none", this, undefined)
  ELSE BufferSet_constructorLoop(<<>>, iterable.items, 1)

(***************************************************************************)
(* work/buffer-map2.js: the map stores the value alone and rebuilds a      *)
(* Buffer from the string key when it is iterated.                         *)
(***************************************************************************)
toKey_work2(key) ==
  IF ~isBuffer(key) THEN [err |-> "TypeError", str |-> <<>>]
  ELSE [err |-> "none", str |-> latin1Slice(key)]

\* Buffer.from(str, 'binary'): a new Buffer, one octet per code unit
BufferFromBinary(str) == Obj(0, "Buffer", [i \in 1..Len(str) |-> str[i] % 256], 0, Len(str))

BufferMap_work2_get(m, key) ==
  LET s == toKey_work2(key) IN
  IF s.err # "none" THEN Threw(m, s.err)
  ELSE Result(m, "none", MapGet(m, s.str), undefined)

BufferMap_work2_has(m, key) ==
  LET s == toKey_work2(key) IN
  IF s.err # "none" THEN Threw(m, s.err)
  ELSE Result(m, "none", JSBool(MapHas(m, s.str)), undefined)

BufferMap_work2_set(m, key, value) ==
  LET s == toKey_work2(key) IN
  IF s.err # "none" THEN Threw(m, s.err)
  ELSE Result(MapSet(m, s.str, value), "none", this, MapGet(m, s.str))

BufferMap_work2_delete(m, key) ==
  LET s == toKey_work2(key) IN
  IF s.err # "none" THEN Threw(m, s.err)
  ELSE Result(MapDelete(m, s.str), "none", JSBool(MapHas(m, s.str)), undefined)

BufferMap_work2_entries(m) == [i \in 1..Len(m) |-> Pair(BufferFromBinary(m[i].k), m[i].v)]

BufferMap_work2_keys(m) == [i \in 1..Len(m) |-> BufferFromBinary(m[i].k)]

BufferMap_work2_values(m) == MapValues(m)

BufferSet_work2_has(m, key) ==
  LET s == toKey_work2(key) IN
  IF s.err # "none" THEN Threw(m, s.err)
  ELSE Result(m, "none", JSBool(MapHas(m, s.str)), undefined)

BufferSet_work2_add(m, key) ==
  LET s == toKey_work2(key) IN
  IF s.err # "none" THEN Threw(m, s.err)
  ELSE Result(MapSet(m, s.str, key), "none", this, MapGet(m, s.str))

BufferSet_work2_delete(m, key) ==
  LET s == toKey_work2(key) IN
  IF s.err # "none" THEN Threw(m, s.err)
  ELSE Result(MapDelete(m, s.str), "none", JSBool(MapHas(m, s.str)), undefined)

(***************************************************************************)
(* unnamed/part_000, lines 1-268: toKey calls key.toString('binary') on    *)
(* whatever it is given; the checking toKey_ is not used.                  *)
(***************************************************************************)
\* the decimal digits of n, as code units
RECURSIVE Decimal(_)
Decimal(n) == IF n < 10 THEN <<48 + n>> ELSE Append(Decimal(n \div 10), 48 + (n % 10))

\* Array.prototype.join: the elements in decimal, separated by commas
RECURSIVE Join(_)
Join(bytes) ==
  IF Len(bytes) = 0 THEN <<>>
  ELSE IF Len(bytes) = 1 THEN Decimal(bytes[1])
  ELSE Join(SubSeq(bytes, 1, Len(bytes) - 1)) \o <<44>> \o Decimal(bytes[Len(bytes)])

\* "[object ArrayBuffer]" and "[object SharedArrayBuffer]"
ObjectArrayBuffer ==
  <<91, 111, 98, 106, 101, 99, 116, 32, 65, 114, 114, 97, 121, 66, 117, 102, 102, 101, 114, 93>>

ObjectSharedArrayBuffer ==
  <<91, 111, 98, 106, 101, 99, 116, 32, 83, 104, 97, 114, 101, 100,
    65, 114, 114, 97, 121, 66, 117, 102, 102, 101, 114, 93>>

\* key.toString('binary') by the class of key
toKey_draft(key) ==
  CASE key.kind = "Buffer" -> [err |-> "none", str |-> latin1Slice(key)]
    [] key.kind = "Uint8Array" -> [err |-> "none", str |-> Join(Bytes(key))]
    [] key.kind = "ArrayBuffer" -> [err |-> "none", str |-> ObjectArrayBuffer]
    [] key.kind = "SharedArrayBuffer" -> [err |-> "none", str |-> ObjectSharedArrayBuffer]
    [] key.kind = "String" -> [err |-> "none", str |-> key.buffer]
    [] OTHER -> [err |-> "TypeError", str |-> <<>>]

copyKey(key) == key

BufferMap_draft_get(m, key) ==
  LET s == toKey_draft(key) IN
  IF s.err # "none" THEN Threw(m, s.err)
  ELSE LET item == MapGet(m, s.str)
       IN IF Not(item) THEN Result(m, "none", undefined, undefined)
          ELSE Result(m, "none", item.second, undefined)

BufferMap_draft_has(m, key) ==
  LET s == toKey_draft(key) IN
  IF s.err # "none" THEN Threw(m, s.err)
  ELSE Result(m, "none", JSBool(MapHas(m, s.str)), undefined)

BufferMap_draft_set(m, key, value) ==
  LET s == toKey_draft(key) IN
  IF s.err # "none" THEN Threw(m, s.err)
  ELSE Result(MapSet(m, s.str, Pair(copyKey(key), value)), "none", this, MapGet(m, s.str))

BufferMap_draft_delete(m, key) ==
  LET s == toKey_draft(key) IN
  IF s.err # "none" THEN Threw(m, s.err)
  ELSE Result(MapDelete(m, s.str), "none", JSBool(MapHas(m, s.str)), undefined)

BufferMap_draft_entries(m) == MapValues(m)

BufferMap_draft_keys(m) == [i \in 1..Len(m) |-> MapValues(m)[i].first]

BufferMap_draft_values(m) == [i \in 1..Len(m) |-> MapValues(m)[i].second]

BufferSet_draft_has(m, key) ==
  LET s == toKey_draft(key) IN
  IF s.err # "none" THEN Threw(m, s.err)
  ELSE Result(m, "none", JSBool(MapHas(m, s.str)), undefined)

BufferSet_draft_add(m, key) ==
  LET s == toKey_draft(key) IN
  IF s.err # "none" THEN Threw(m, s.err)
  ELSE Result(MapSet(m, s.str, copyKey(key)), "none", this, MapGet(m, s.str))

BufferSet_draft_delete(m, key) ==
  LET s == toKey_draft(key) IN
  IF s.err # "none" THEN Threw(m, s.err)
  ELSE Result(MapDelete(m, s.str), "none", JSBool(MapHas(m, s.str)), undefined)

(***************************************************************************)
(* The operations of the container under test, by version and class.       *)
(***************************************************************************)
get(m, key) ==
  CASE impl = "lib" -> BufferMap_get(m, key)
    [] impl = "work2" -> BufferMap_work2_get(m, key)
    [] impl = "draft" -> BufferMap_draft_get(m, key)

has(m, key) ==
  CASE impl = "lib" /\ cls = "BufferMap" -> BufferMap_has(m, key)
    [] impl = "lib" /\ cls = "BufferSet" -> BufferSet_has(m, key)
    [] impl = "work2" /\ cls = "BufferMap" -> BufferMap_work2_has(m, key)
    [] impl = "work2" /\ cls = "BufferSet" -> BufferSet_work2_has(m, key)
    [] impl = "draft" /\ cls = "BufferMap" -> BufferMap_draft_has(m, key)
    [] impl = "draft" /\ cls = "BufferSet" -> BufferSet_draft_has(m, key)

set(m, key, value) ==
  CASE impl = "lib" -> BufferMap_set(m, key, value)
    [] impl = "work2" -> BufferMap_work2_set(m, key, value)
    [] impl = "draft" -> BufferMap_draft_set(m, key, value)

add(m, key) ==
  CASE impl = "lib" -> BufferSet_add(m, key)
    [] impl = "work2" -> BufferSet_work2_add(m, key)
    [] impl = "draft" -> BufferSet_draft_add(m, key)

delete(m, key) ==
  CASE impl = "lib" /\ cls = "BufferMap" -> BufferMap_delete(m, key)
    [] impl = "lib" /\ cls = "BufferSet" -> BufferSet_delete(m, key)
    [] impl = "work2" /\ cls = "BufferMap" -> BufferMap_work2_delete(m, key)
    [] impl = "work2" /\ cls = "BufferSet" -> BufferSet_work2_delete(m, key)
    [] impl = "draft" /\ cls = "BufferMap" -> BufferMap_draft_delete(m, key)
    [] impl = "draft" /\ cls = "BufferSet" -> BufferSet_draft_delete(m, key)

clear(m) == IF cls = "BufferMap" THEN BufferMap_clear(m) ELSE BufferSet_clear(m)

size(m) == IF cls = "BufferMap" THEN BufferMap_size(m) ELSE BufferSet_size(m)

keys(m) ==
  CASE cls = "BufferSet" -> BufferSet_keys(m)
    [] cls = "BufferMap" /\ impl = "lib" -> BufferMap_keys(m)
    [] cls = "BufferMap" /\ impl = "work2" -> BufferMap_work2_keys(m)
    [] cls = "BufferMap" /\ impl = "draft" -> BufferMap_draft_keys(m)

values(m) ==
  CASE cls = "BufferSet" -> BufferSet_values(m)
    [] cls = "BufferMap" /\ impl = "lib" -> BufferMap_values(m)
    [] cls = "BufferMap" /\ impl = "work2" -> BufferMap_work2_values(m)
    [] cls = "BufferMap" /\ impl = "draft" -> BufferMap_draft_values(m)

entries(m) ==
  CASE cls = "BufferSet" -> BufferSet_entries(m)
    [] cls = "BufferMap" /\ impl = "lib" -> BufferMap_entries(m)
    [] cls = "BufferMap" /\ impl = "work2" -> BufferMap_work2_entries(m)
    [] cls = "BufferMap" /\ impl = "draft" -> BufferMap_draft_entries(m)

forEach(m, func) ==
  IF cls = "BufferMap" THEN BufferMap_forEach(m, func) ELSE BufferSet_forEach(m, func)

toKeys(m) == IF cls = "BufferMap" THEN BufferMap_toKeys(m) ELSE BufferSet_toKeys(m)

toValues(m) == IF cls = "BufferMap" THEN BufferMap_toValues(m) ELSE BufferSet_toValues(m)

toArray(m) == IF cls = "BufferMap" THEN BufferMap_toArray(m) ELSE BufferSet_toArray(m)

(***************************************************************************)
(* The state machine: one container, a BufferMap or a BufferSet, and the   *)
(* calls made on it.  last is the most recent call and its outcome.        *)
(***************************************************************************)
Call(op, key, value, r) ==
  /\ map' = r.map
  /\ last' = [op |-> op, key |-> key, value |-> value,
              err |-> r.err, ret |-> r.ret, old |-> r.old]
  /\ UNCHANGED <<impl, cls>>

NoStr == [err |-> "none", str |-> <<>>]

NormIdle == [pc |-> "idle", a |-> NoKey, b |-> NoKey, ka |-> NoStr, kb |-> NoStr]

New == [op |-> "new", key |-> NoKey, value |-> undefined,
        err |-> "none", ret |-> undefined, old |-> undefined]

\* no constructor argument, no iterator, no record of first insertions, and
\* no second container
CtorIdle == [pc |-> "idle", iterable |-> <<>>, built |-> <<>>, err |-> "none", i |-> 0]

IterIdle == [state |-> "none", kind |-> "none", pos |-> 0, size0 |-> 0]

Idle ==
  /\ ctor = CtorIdle
  /\ iter = IterIdle
  /\ ever = <<>>
  /\ mirror = <<>>

InitContainer ==
  /\ cls \in {"BufferMap", "BufferSet"}
  /\ map = <<>>
  /\ last = New
  /\ norm = NormIdle
  /\ Idle

Init == impl = "lib" /\ InitContainer

InitWork2 == impl = "work2" /\ InitContainer

InitDraft == impl = "draft" /\ InitContainer

Get ==
  \E key \in Keys :
    /\ cls = "BufferMap"
    /\ Call("get", key, undefined, get(map, key))
    /\ UNCHANGED <<norm, ctor, iter, ever, mirror>>

Has ==
  \E key \in Keys : Call("has", key, undefined, has(map, key)) /\ UNCHANGED <<norm, ctor, iter, ever, mirror>>

Set ==
  \E key \in Keys, value \in Values :
    /\ cls = "BufferMap"
    /\ LET r == set(map, key, value)
       IN Len(r.map) <= MaxSize /\ Call("set", key, value, r)
    /\ UNCHANGED <<norm, ctor, iter, ever, mirror>>

Add ==
  \E key \in Keys :
    /\ cls = "BufferSet"
    /\ LET r == add(map, key)
       IN Len(r.map) <= MaxSize /\ Call("add", key, undefined, r)
    /\ UNCHANGED <<norm, ctor, iter, ever, mirror>>

Delete ==
  \E key \in Keys : Call("delete", key, undefined, delete(map, key)) /\ UNCHANGED <<norm, ctor, iter, ever, mirror>>

Clear == Call("clear", NoKey, undefined, clear(map)) /\ UNCHANGED <<norm, ctor, iter, ever, mirror>>

IterKeys ==
  /\ Call("keys", NoKey, undefined, Result(map, "none", keys(map), undefined))
  /\ UNCHANGED <<norm, ctor, iter, ever, mirror>>

IterValues ==
  /\ Call("values", NoKey, undefined, Result(map, "none", values(map), undefined))
  /\ UNCHANGED <<norm, ctor, iter, ever, mirror>>

IterEntries ==
  /\ Call("entries", NoKey, undefined, Result(map, "none", entries(map), undefined))
  /\ UNCHANGED <<norm, ctor, iter, ever, mirror>>

\* the arguments given to forEach: a function, and something that is not one
Funcs == {[t |-> "function"], undefined}

ForEach ==
  \E func \in Funcs : Call("forEach", NoKey, func, forEach(map, func)) /\ UNCHANGED <<norm, ctor, iter, ever, mirror>>

ToKeys ==
  /\ Call("toKeys", NoKey, undefined, Result(map, "none", toKeys(map), undefined))
  /\ UNCHANGED <<norm, ctor, iter, ever, mirror>>

ToValues ==
  /\ Call("toValues", NoKey, undefined, Result(map, "none", toValues(map), undefined))
  /\ UNCHANGED <<norm, ctor, iter, ever, mirror>>

ToArray ==
  /\ Call("toArray", NoKey, undefined, Result(map, "none", toArray(map), undefined))
  /\ UNCHANGED <<norm, ctor, iter, ever, mirror>>

\* the operations every version has
NextCore ==
  \/ Get
  \/ Has
  \/ Set
  \/ Add
  \/ Delete
  \/ Clear
  \/ IterKeys
  \/ IterValues
  \/ IterEntries

Next ==
  \/ NextCore
  \/ ForEach
  \/ ToKeys
  \/ ToValues
  \/ ToArray

Spec == Init /\ [][Next]_vars

SpecWork2 == InitWork2 /\ [][NextCore]_vars

SpecDraft == InitDraft /\ [][NextCore]_vars

(***************************************************************************)
(* The key normalizer on pairs of byte-bearing keys.  The pairs are every  *)
(* two keys over backing stores of at most MaxMem octets, of every kind    *)
(* and window, and every two one-octet Buffers over the octets 0..255.     *)
(***************************************************************************)
NormOctets == {0, 128}

Windows(mem) ==
  {w \in (0..Len(mem)) \X (0..Len(mem)) : w[1] + w[2] <= Len(mem)}

NormInputs(id) ==
  UNION {{Obj(id, kind, mem, w[1], w[2]) : kind \in {"Buffer", "Uint8Array"}, w \in Windows(mem)}
         \cup {Obj(id, kind, mem, 0, Len(mem)) : kind \in {"ArrayBuffer", "SharedArrayBuffer"}} :
         mem \in SeqsUpTo(NormOctets, MaxMem)}

OctetInput(id, o) == Obj(id, "Buffer", <<o>>, 0, 1)

NormPairs ==
  (NormInputs(1) \X NormInputs(2))
  \cup {<<OctetInput(1, x), OctetInput(2, y)>> : x \in 0..255, y \in 0..255}

InitNorm ==
  /\ impl = "lib"
  /\ cls = "BufferMap"
  /\ map = <<>>
  /\ last = New
  /\ Idle
  /\ \E p \in NormPairs :
       norm = [pc |-> "input", a |-> p[1], b |-> p[2], ka |-> NoStr, kb |-> NoStr]

Normalize ==
  /\ norm.pc = "input"
  /\ norm' = [norm EXCEPT !.pc = "keyed", !.ka = toBinary(norm.a), !.kb = toBinary(norm.b)]
  /\ UNCHANGED <<impl, cls, map, last, ctor, iter, ever, mirror>>

InsertFirst ==
  /\ norm.pc = "keyed"
  /\ Call("set", norm.a, JSString("v1"), set(map, norm.a, JSString("v1")))
  /\ norm' = [norm EXCEPT !.pc = "first"]
  /\ UNCHANGED <<ctor, iter, ever, mirror>>

InsertSecond ==
  /\ norm.pc = "first"
  /\ Call("set", norm.b, JSString("v2"), set(map, norm.b, JSString("v2")))
  /\ norm' = [norm EXCEPT !.pc = "second"]
  /\ UNCHANGED <<ctor, iter, ever, mirror>>

NextNorm ==
  \/ Normalize
  \/ InsertFirst
  \/ InsertSecond

SpecNorm == InitNorm /\ [][NextNorm]_vars

(***************************************************************************)
(* Construction from a sequence.  One container is built by the            *)
(* constructor from the sequence (ctor.built); a second one starts empty   *)
(* (map) and receives the items of the sequence one call at a time.        *)
(***************************************************************************)
Iterables(c) ==
  {undefined} \cup
  { JSArray(items) : items \in
      IF c = "BufferMap"
      THEN SeqsUpTo({Pair(k, v) : k \in Keys, v \in Values}, MaxIter)
      ELSE SeqsUpTo(Keys, MaxIter) }

InitCtor ==
  /\ impl = "lib"
  /\ cls \in {"BufferMap", "BufferSet"}
  /\ map = <<>>
  /\ last = New
  /\ norm = NormIdle
  /\ iter = IterIdle
  /\ ever = <<>>
  /\ mirror = <<>>
  /\ \E iterable \in Iterables(cls) :
       ctor = [pc |-> "new", iterable |-> iterable, built |-> <<>>, err |-> "none", i |-> 0]

\* new BufferMap(iterable) or new BufferSet(iterable)
Construct ==
  /\ ctor.pc = "new"
  /\ LET r == IF cls = "BufferMap" THEN BufferMap_constructor(ctor.iterable)
              ELSE BufferSet_constructor(ctor.iterable)
     IN ctor' = [ctor EXCEPT !.pc = "built", !.built = r.map, !.err = r.err]
  /\ UNCHANGED <<impl, cls, map, last, norm, iter, ever, mirror>>

\* the next item of the sequence, inserted into the container that began empty
Replay ==
  /\ ctor.pc = "built"
  /\ ctor.iterable # undefined
  /\ ctor.i < Len(ctor.iterable.items)
  /\ last.err = "none"
  /\ LET item == ctor.iterable.items[ctor.i + 1]
     IN IF cls = "BufferMap"
        THEN Call("set", item.first, item.second, set(map, item.first, item.second))
        ELSE Call("add", item, undefined, add(map, item))
  /\ ctor' = [ctor EXCEPT !.i = ctor.i + 1]
  /\ UNCHANGED <<norm, iter, ever, mirror>>

NextCtor ==
  \/ Construct
  \/ Replay

SpecCtor == InitCtor /\ [][NextCtor]_vars

(***************************************************************************)
(* A BufferSet beside a BufferMap.  Every add(k), delete(k) and clear() on *)
(* the set (mirror) is made together with set(k, k), delete(k) and clear() *)
(* on the map (map).                                                       *)
(***************************************************************************)
InitMirror ==
  /\ impl = "lib"
  /\ cls = "BufferMap"
  /\ map = <<>>
  /\ mirror = <<>>
  /\ last = New
  /\ norm = NormIdle
  /\ ctor = CtorIdle
  /\ iter = IterIdle
  /\ ever = <<>>

MirrorAdd ==
  \E key \in Keys :
    /\ LET r == BufferMap_set(map, key, key)
       IN Len(r.map) <= MaxSize /\ Call("set", key, key, r)
    /\ mirror' = BufferSet_add(mirror, key).map
    /\ UNCHANGED <<norm, ctor, iter, ever>>

MirrorDelete ==
  \E key \in Keys :
    /\ Call("delete", key, undefined, BufferMap_delete(map, key))
    /\ mirror' = BufferSet_delete(mirror, key).map
    /\ UNCHANGED <<norm, ctor, iter, ever>>

MirrorClear ==
  /\ Call("clear", NoKey, undefined, BufferMap_clear(map))
  /\ mirror' = BufferSet_clear(mirror).map
  /\ UNCHANGED <<norm, ctor, iter, ever>>

NextMirror ==
  \/ MirrorAdd
  \/ MirrorDelete
  \/ MirrorClear

SpecMirror == InitMirror /\ [][NextMirror]_vars

(***************************************************************************)

(* Iteration while the container changes.  iter is one iterator obtained   *)
(* from keys(), values() or entries(): a generator object for the methods  *)
(* declared with *, the Map's own iterator for BufferSet keys() and        *)
(* values().  pos is the number of entries the iterator has passed, and    *)
(* size0 the size of the container when the iterator was obtained.         *)
(***************************************************************************)
IterResult(value, done) == [t |-> "object", value |-> value, done |-> done]

Exhausted == IterResult(undefined, TRUE)

\* what the loop body yields for an item of this.map.values()
Yield(c, kind, item) ==
  CASE c = "BufferSet" /\ kind = "entries" -> Pair(item, item)
    [] c = "BufferSet" /\ kind # "entries" -> item
    [] c = "BufferMap" /\ kind = "entries" -> Pair(item.key, item.value)
    [] c = "BufferMap" /\ kind = "keys" -> item.key
    [] c = "BufferMap" /\ kind = "values" -> item.value

\* calling the method: a generator suspended at its start, or a Map iterator
Obtained(c, kind, m) ==
  [state |-> IF c = "BufferSet" /\ kind # "entries" THEN "created" ELSE "suspendedStart",
   kind |-> kind, pos |-> 0, size0 |-> Len(m)]

\* an iterator that looks at the container again after it has finished
IteratorNextRestartable(c, it, m) ==
  IF it.pos < Len(m)
  THEN [iter |-> [it EXCEPT !.state = "active", !.pos = it.pos + 1],
        ret |-> IterResult(Yield(c, it.kind, MapValues(m)[it.pos + 1]), FALSE)]
  ELSE [iter |-> [it EXCEPT !.state = "done"], ret |-> Exhausted]

\* next(): the loop over this.map.values() starts at the first call and
\* reads the Map as it is at each call; a finished iterator stays finished
IteratorNext(c, it, m) ==
  IF it.state = "done" THEN [iter |-> it, ret |-> Exhausted]
  ELSE IF it.pos < Len(m)
  THEN [iter |-> [it EXCEPT !.state = "active", !.pos = it.pos + 1],
        ret |-> IterResult(Yield(c, it.kind, MapValues(m)[it.pos + 1]), FALSE)]
  ELSE [iter |-> [it EXCEPT !.state = "done"], ret |-> Exhausted]

\* a Map iterator passes no entry twice and skips none that remains: an
\* entry deleted behind it moves it back by one, clear() to the start
MapIteratorAfterDelete(it, m, s) ==
  IF it.state = "active" /\ MapHas(m, s) /\ MapIndex(m, s) <= it.pos
  THEN [it EXCEPT !.pos = it.pos - 1]
  ELSE it

MapIteratorAfterClear(it) ==
  IF it.state = "active" THEN [it EXCEPT !.pos = 0] ELSE it

\* one key object for each content of at most one octet
SmallKeys ==
  {k \in Keys : /\ k.kind \in ByteKinds
                /\ k.byteLength <= 1
                /\ \A j \in Keys :
                     (j.kind \in ByteKinds /\ Bytes(j) = Bytes(k)) => j.id >= k.id}

InitIter ==
  /\ impl = "lib"
  /\ cls \in {"BufferMap", "BufferSet"}
  /\ map = <<>>
  /\ last = New
  /\ norm = NormIdle
  /\ ctor = CtorIdle
  /\ iter = IterIdle
  /\ ever = <<>>
  /\ mirror = <<>>

Obtain ==
  \E kind \in {"keys", "values", "entries"} :
    /\ iter' = Obtained(cls, kind, map)
    /\ last' = [op |-> kind, key |-> NoKey, value |-> undefined,
                err |-> "none", ret |-> [t |-> "object", iterator |-> TRUE], old |-> undefined]
    /\ UNCHANGED <<impl, cls, map, norm, ctor, ever, mirror>>

Consume ==
  /\ iter.state # "none"
  /\ LET r == IteratorNext(cls, iter, map)
     IN /\ iter' = r.iter
        /\ last' = [op |-> "next", key |-> NoKey, value |-> undefined,
                    err |-> "none", ret |-> r.ret, old |-> undefined]
  /\ UNCHANGED <<impl, cls, map, norm, ctor, ever, mirror>>

IterSet ==
  \E key \in SmallKeys, value \in Values :
    /\ cls = "BufferMap"
    /\ LET r == set(map, key, value)
       IN Len(r.map) <= MaxSize /\ Call("set", key, value, r)
    /\ UNCHANGED <<norm, ctor, iter, ever, mirror>>

IterAdd ==
  \E key \in SmallKeys :
    /\ cls = "BufferSet"
    /\ LET r == add(map, key)
       IN Len(r.map) <= MaxSize /\ Call("add", key, undefined, r)
    /\ UNCHANGED <<norm, ctor, iter, ever, mirror>>

IterDelete ==
  \E key \in SmallKeys :
    /\ Call("delete", key, undefined, delete(map, key))
    /\ iter' = MapIteratorAfterDelete(iter, map, toBinary(key).str)
    /\ UNCHANGED <<norm, ctor, ever, mirror>>

IterClear ==
  /\ Call("clear", NoKey, undefined, clear(map))
  /\ iter' = MapIteratorAfterClear(iter)
  /\ UNCHANGED <<norm, ctor, ever, mirror>>

NextIter ==
  \/ Obtain
  \/ Consume
  \/ IterSet
  \/ IterAdd
  \/ IterDelete
  \/ IterClear

SpecIter == InitIter /\ [][NextIter]_vars

(***************************************************************************)

(* Insertion after deletion.  ever lists the contents in the order in      *)
(* which each was inserted for the first time since construction.          *)
(***************************************************************************)
InitOrder ==
  /\ impl = "lib"
  /\ cls \in {"BufferMap", "BufferSet"}
  /\ map = <<>>
  /\ last = New
  /\ norm = NormIdle
  /\ ctor = CtorIdle
  /\ iter = IterIdle
  /\ ever = <<>>
  /\ mirror = <<>>

FirstInsertions(seen, key) ==
  IF Bytes(key) \in Range(seen) THEN seen ELSE Append(seen, Bytes(key))

OrderSet ==
  \E key \in SmallKeys, value \in Values :
    /\ cls = "BufferMap"
    /\ LET r == set(map, key, value)
       IN Len(r.map) <= MaxSize /\ Call("set", key, value, r)
    /\ ever' = FirstInsertions(ever, key)
    /\ UNCHANGED <<norm, ctor, iter, mirror>>

OrderAdd ==
  \E key \in SmallKeys :
    /\ cls = "BufferSet"
    /\ LET r == add(map, key)
       IN Len(r.map) <= MaxSize /\ Call("add", key, undefined, r)
    /\ ever' = FirstInsertions(ever, key)
    /\ UNCHANGED <<norm, ctor, iter, mirror>>

OrderDelete ==
  \E key \in SmallKeys :
    /\ Call("delete", key, undefined, delete(map, key))
    /\ UNCHANGED <<norm, ctor, iter, ever, mirror>>

OrderKeys ==
  /\ Call("keys", NoKey, undefined, Result(map, "none", keys(map), undefined))
  /\ UNCHANGED <<norm, ctor, iter, ever, mirror>>

NextOrder ==
  \/ OrderSet
  \/ OrderAdd
  \/ OrderDelete
  \/ OrderKeys

SpecOrder == InitOrder /\ [][NextOrder]_vars

(***************************************************************************)

(* Values of every kind.  A BufferMap of the library or of the draft       *)
(* stores undefined, null, false, 0, "" and a non-empty string.            *)
(***************************************************************************)
InitValues ==
  /\ impl \in {"lib", "draft"}
  /\ cls = "BufferMap"
  /\ map = <<>>
  /\ last = New
  /\ norm = NormIdle
  /\ Idle

ValuesSet ==
  \E key \in SmallKeys, value \in AllValues :
    /\ LET r == set(map, key, value)
       IN Len(r.map) <= MaxSize /\ Call("set", key, value, r)
    /\ UNCHANGED <<norm, ctor, iter, ever, mirror>>

ValuesGet ==
  \E key \in SmallKeys :
    /\ Call("get", key, undefined, get(map, key))
    /\ UNCHANGED <<norm, ctor, iter, ever, mirror>>

ValuesHas ==
  \E key \in SmallKeys :
    /\ Call("has", key, undefined, has(map, key))
    /\ UNCHANGED <<norm, ctor, iter, ever, mirror>>

ValuesDelete ==
  \E key \in SmallKeys :
    /\ Call("delete", key, undefined, delete(map, key))
    /\ UNCHANGED <<norm, ctor, iter, ever, mirror>>

NextValues ==
  \/ ValuesSet
  \/ ValuesGet
  \/ ValuesHas
  \/ ValuesDelete

SpecValues == InitValues /\ [][NextValues]_vars

(***************************************************************************)

(* Properties.                                                             *)
(***************************************************************************)
ByteBearing(key) == key.kind \in ByteKinds

\* the same length and the same octet at every position
SameBytes(a, b) ==
  /\ a.byteLength = b.byteLength
  /\ \A i \in 1..a.byteLength : a.buffer[a.byteOffset + i] = b.buffer[b.byteOffset + i]

KeyedOps == {"get", "has", "set", "add", "delete"}

\* the byte contents of the keys the container yields
Contents(m) == {Bytes(k) : k \in Range(keys(m))}

ContentSeq(m) == [i \in 1..Len(keys(m)) |-> Bytes(keys(m)[i])]

RemoveAt(s, i) == SubSeq(s, 1, i - 1) \o SubSeq(s, i + 1, Len(s))

\* C1: after set(a, v), get(b) returns v and has(b) is true for every key
\* object b that holds the bytes of a; and a get(b) made in any state
\* returns the value stored under the key object holding the same bytes.
C1_ContentEquality ==
  cls = "BufferMap" =>
    /\ (last.op = "set" /\ last.err = "none") =>
         \A b \in Keys :
           (ByteBearing(b) /\ SameBytes(b, last.key)) =>
             /\ get(map, b) = Result(map, "none", last.value, undefined)
             /\ has(map, b) = Result(map, "none", JSBool(TRUE), undefined)
    /\ (last.op = "get" /\ last.err = "none") =>
         \A i \in 1..Len(map) :
           SameBytes(keys(map)[i], last.key) => last.ret = values(map)[i]

\* a get through a key object other than the stored one found the value
C1_Witness ==
  /\ cls = "BufferMap" /\ last.op = "get" /\ last.err = "none" /\ last.ret \in Values
  /\ \E i \in 1..Len(map) :
       /\ keys(map)[i].id # last.key.id
       /\ keys(map)[i].kind # last.key.kind
       /\ SameBytes(keys(map)[i], last.key)
       /\ values(map)[i] = last.ret

\* C2: two byte-bearing keys have equal canonical keys exactly when their
\* bytes have the same length and the same octet at every position, whatever
\* their subtype, window or octet values; inserted one after the other they
\* share one entry when the bytes are equal and occupy two otherwise.
C2_Injective ==
  /\ norm.pc \in {"keyed", "first", "second"} =>
       /\ norm.ka.err = "none" /\ norm.kb.err = "none"
       /\ (norm.ka.str = norm.kb.str) <=> SameBytes(norm.a, norm.b)
  /\ norm.pc = "second" =>
       IF SameBytes(norm.a, norm.b)
       THEN size(map) = 1 /\ get(map, norm.a).ret = JSString("v2")
       ELSE /\ size(map) = 2
            /\ get(map, norm.a).ret = JSString("v1")
            /\ get(map, norm.b).ret = JSString("v2")

\* two keys of different subtypes and windows and of the same length that
\* differ in their one octet
C2_Witness ==
  /\ norm.pc = "second" /\ size(map) = 2
  /\ norm.a.kind # norm.b.kind
  /\ norm.a.byteOffset # norm.b.byteOffset
  /\ norm.a.byteLength = 1 /\ norm.b.byteLength = 1
  /\ Bytes(norm.a) = <<0>> /\ Bytes(norm.b) = <<128>>
  /\ get(map, norm.a).ret = JSString("v1")

\* C3: size is the number of distinct byte contents present: set and add
\* make the key's content present, delete removes it, clear removes all,
\* nothing else changes what is present, and an insertion of a content that
\* is already present leaves size unchanged.
C3_SizeAccounting ==
  [][/\ size(map') = Cardinality(Contents(map'))
     /\ IF last'.op \in {"set", "add"} /\ last'.err = "none"
        THEN /\ Contents(map') = Contents(map) \cup {Bytes(last'.key)}
             /\ Bytes(last'.key) \in Contents(map) => size(map') = size(map)
        ELSE IF last'.op = "delete" /\ last'.err = "none"
        THEN Contents(map') = Contents(map) \ {Bytes(last'.key)}
        ELSE IF last'.op = "clear"
        THEN Contents(map') = {}
        ELSE Contents(map') = Contents(map)]_vars

\* a set took a key whose content another key object had already inserted
C3_Witness ==
  /\ cls = "BufferSet" /\ last.op = "add" /\ last.err = "none"
  /\ last.old # undefined /\ last.old.id # last.key.id
  /\ size(map) = 2

\* C4: a set(k2, v2) over an entry inserted through another key object k1
\* of equal content leaves size unchanged; get then returns v2, and keys,
\* entries, forEach and toKeys yield k2, not k1, for that entry.
C4_Overwrite ==
  [][(cls = "BufferMap" /\ last'.op = "set" /\ last'.err = "none") =>
       \A i \in 1..Len(keys(map)) :
         (SameBytes(keys(map)[i], last'.key) /\ keys(map)[i] # last'.key) =>
           /\ size(map') = size(map)
           /\ get(map', last'.key).ret = last'.value
           /\ keys(map')[i] = last'.key
           /\ entries(map')[i] = Pair(last'.key, last'.value)
           /\ toKeys(map')[i] = last'.key
           /\ forEach(map', [t |-> "function"]).ret[i] = <<last'.value, last'.key, this>>
           /\ keys(map)[i] \notin Range(keys(map'))
           /\ keys(map)[i] \notin Range(toKeys(map'))]_vars

\* a set replaced both the key object and the value of an entry
C4_Witness ==
  /\ cls = "BufferMap" /\ last.op = "set" /\ last.err = "none"
  /\ last.old # undefined
  /\ last.old.key # last.key /\ last.old.value # last.value
  /\ last.key \in Range(keys(map))

\* C5: delete(k) of a present content returns true, removes that entry
\* alone, leaves the others as they were and in their order, and lowers size
\* by 1; delete(k) of an absent content returns false and changes nothing.
C5_Deletion ==
  [][(last'.op = "delete" /\ last'.err = "none") =>
       IF \E i \in 1..Len(keys(map)) : SameBytes(keys(map)[i], last'.key)
       THEN \E i \in 1..Len(keys(map)) :
              /\ SameBytes(keys(map)[i], last'.key)
              /\ last'.ret = JSBool(TRUE)
              /\ entries(map') = RemoveAt(entries(map), i)
              /\ keys(map') = RemoveAt(keys(map), i)
              /\ values(map') = RemoveAt(values(map), i)
              /\ size(map') = size(map) - 1
       ELSE last'.ret = JSBool(FALSE) /\ map' = map]_vars

\* a delete removed one entry and left two
C5_Witness ==
  /\ last.op = "delete" /\ last.err = "none" /\ last.ret = JSBool(TRUE)
  /\ size(map) = 2
  /\ Bytes(last.key) \notin Contents(map)

\* C6: a set or add of a content that is not present puts the entry last;
\* a set or add of a present content keeps every entry where it is and
\* changes only that entry's key object and value; keys, values and entries
\* run in the same order.
C6_IterationOrder ==
  [][/\ \A j \in 1..Len(entries(map')) :
          /\ keys(map')[j] = entries(map')[j].first
          /\ values(map')[j] = entries(map')[j].second
     /\ (last'.op \in {"set", "add"} /\ last'.err = "none") =>
          LET stored == IF cls = "BufferMap" THEN last'.value ELSE last'.key
          IN IF Bytes(last'.key) \in Contents(map)
             THEN /\ ContentSeq(map') = ContentSeq(map)
                  /\ \A j \in 1..Len(entries(map)) :
                       IF SameBytes(keys(map)[j], last'.key)
                       THEN entries(map')[j] = Pair(last'.key, stored)
                       ELSE entries(map')[j] = entries(map)[j]
             ELSE entries(map') = Append(entries(map), Pair(last'.key, stored))]_vars

\* the middle one of three entries was set again through another key object
C6_Witness ==
  /\ cls = "BufferMap" /\ last.op = "set" /\ last.err = "none"
  /\ last.old # undefined /\ last.old.key # last.key
  /\ size(map) = 3
  /\ keys(map)[2] = last.key

\* C7: an operation given a key that is not byte-bearing fails with a
\* TypeError and leaves the container as it was.
C7_InvalidKey ==
  [][(last'.op \in KeyedOps /\ ~ByteBearing(last'.key)) =>
       (last'.err = "TypeError" /\ map' = map)]_vars

\* C8: every key object the container yields was yielded before the step or
\* is the key object the caller has just passed to set or add.
Yielded(m) ==
  Range(keys(m)) \cup {e.first : e \in Range(entries(m))}
  \cup (IF cls = "BufferSet" THEN Range(values(m)) ELSE {})

C8_CallerKeysOnly ==
  [][\A k \in Yielded(map') :
       \/ k \in Yielded(map)
       \/ last'.op \in {"set", "add"} /\ last'.err = "none" /\ k = last'.key]_vars

\* C9: a Buffer, a view, an ArrayBuffer and a SharedArrayBuffer are all
\* accepted as keys by get, has, set, add and delete, and only the viewed
\* bytes count: after an insertion every key object holding the same bytes
\* is present, and has answers by the bytes of the key it is given.
C9_ViewsAccepted ==
  /\ (last.op \in KeyedOps /\ ByteBearing(last.key)) => last.err = "none"
  /\ (last.op \in {"set", "add"} /\ last.err = "none") =>
       \A b \in Keys :
         (ByteBearing(b) /\ SameBytes(b, last.key)) =>
           has(map, b) = Result(map, "none", JSBool(TRUE), undefined)
  /\ (last.op = "has" /\ last.err = "none") =>
       last.ret = JSBool(Bytes(last.key) \in Contents(map))

\* C10: the empty key never fails; it is absent from an empty container;
\* it becomes present only by an insertion of an empty key, which raises
\* size by 1, and stays present until an empty key is deleted or the
\* container is cleared; inserting it again leaves size unchanged; and
\* inserting it does not change whether any non-empty key is present.
EmptyKey(key) == ByteBearing(key) /\ key.byteLength = 0

HasRet(m, key) == has(m, key).ret = JSBool(TRUE)

C10_EmptyKey ==
  [][\A e \in {k \in Keys : EmptyKey(k)} :
       /\ has(map', e).err = "none"
       /\ (last'.op \in KeyedOps /\ last'.key = e) => last'.err = "none"
       /\ cls = "BufferMap" => get(map', e).err = "none"
       /\ map = <<>> => ~HasRet(map, e)
       /\ (cls = "BufferMap" /\ ~HasRet(map', e)) => get(map', e).ret = undefined
       /\ (~HasRet(map, e) /\ HasRet(map', e)) =>
            /\ last'.op \in {"set", "add"} /\ EmptyKey(last'.key)
            /\ size(map') = size(map) + 1
       /\ (HasRet(map, e) /\ ~HasRet(map', e)) =>
            \/ last'.op = "delete" /\ EmptyKey(last'.key)
            \/ last'.op = "clear"
       /\ (HasRet(map, e) /\ last'.op \in {"set", "add"} /\ EmptyKey(last'.key)) =>
            size(map') = size(map) /\ HasRet(map', e)
       /\ (last'.op \in {"set", "add"} /\ EmptyKey(last'.key)) =>
            \A k \in Keys : (ByteBearing(k) /\ ~EmptyKey(k)) => (HasRet(map', k) <=> HasRet(map, k))]_vars

\* the empty key was added a second time
C10_Witness ==
  /\ cls = "BufferSet" /\ last.op = "add" /\ last.err = "none"
  /\ EmptyKey(last.key)
  /\ last.old # undefined
  /\ size(map) = 1

\* the items of the sequence given to the constructor, as (key, value) pairs
CtorItems ==
  IF ctor.iterable = undefined THEN <<>>
  ELSE IF cls = "BufferMap" THEN ctor.iterable.items
  ELSE [i \in 1..Len(ctor.iterable.items) |->
          Pair(ctor.iterable.items[i], ctor.iterable.items[i])]

\* every item of the sequence has been inserted into the second container
Replayed == ctor.pc = "built" /\ last.err = "none" /\ ctor.i = Len(CtorItems)

\* C11: a container constructed from a sequence is in the state reached by
\* inserting the items one by one into an empty container; it throws exactly
\* when one of those insertions throws; every entry holds the key object
\* and the value of the last item with its content, so that the size is the
\* number of distinct contents; and without an argument it is empty.
C11_Constructor ==
  /\ (ctor.pc = "built" /\ ctor.iterable = undefined) => ctor.built = <<>>
  /\ (ctor.pc = "built" /\ last.err # "none") => ctor.err = last.err
  /\ Replayed =>
       /\ ctor.err = "none"
       /\ ctor.built = map
       /\ Len(ctor.built) = Cardinality({Bytes(CtorItems[i].first) : i \in 1..Len(CtorItems)})
       /\ \A i \in 1..Len(CtorItems) :
            (\A j \in (i + 1)..Len(CtorItems) :
               Bytes(CtorItems[j].first) # Bytes(CtorItems[i].first))
            => \E n \in 1..Len(ctor.built) :
                 /\ (IF cls = "BufferMap" THEN BufferMap_entries(ctor.built)
                     ELSE BufferSet_entries(ctor.built))[n] = CtorItems[i]

\* three pairs were given, the third with the content of the first in another
\* key object, and the constructed map has two entries, the first of them
\* holding the third pair
C11_Witness ==
  /\ Replayed
  /\ cls = "BufferMap"
  /\ Len(CtorItems) = 3
  /\ Len(ctor.built) = 2
  /\ Bytes(CtorItems[3].first) = Bytes(CtorItems[1].first)
  /\ CtorItems[3].first.id # CtorItems[1].first.id
  /\ CtorItems[3].second # CtorItems[1].second
  /\ BufferMap_entries(ctor.built)[1] = CtorItems[3]

\* C12: forEach with an argument that is not a function throws a TypeError
\* without having called anything, on a BufferMap and on a BufferSet, empty
\* or not, and leaves the container as it was.
C12_InvalidCallback ==
  [][(last'.op = "forEach" /\ last'.value.t # "function")
     => /\ last'.err = "TypeError"
        /\ last'.ret = undefined
        /\ map' = map]_vars

\* forEach(undefined) has thrown on a BufferSet of two entries
C12_Witness ==
  /\ last.op = "forEach"
  /\ last.value = undefined
  /\ last.err = "TypeError"
  /\ cls = "BufferSet"
  /\ Len(map) = 2

\* C13: forEach with a function calls it once per entry, in the order of
\* entries(), with (value, key, container) on a BufferMap and with
\* (key, key, container) on a BufferSet; the number of calls is the size.
C13_ForEach ==
  (last.op = "forEach" /\ last.value.t = "function")
  => /\ last.err = "none"
     /\ Len(last.ret) = size(map)
     /\ Len(last.ret) = Len(entries(map))
     /\ \A i \in 1..Len(last.ret) :
          /\ last.ret[i] = <<entries(map)[i].second, entries(map)[i].first, this>>
          /\ cls = "BufferSet" => last.ret[i][1] = last.ret[i][2]

\* forEach has called the function three times on a BufferMap that holds
\* two different values
C13_Witness ==
  /\ last.op = "forEach"
  /\ last.err = "none"
  /\ cls = "BufferMap"
  /\ Len(last.ret) = 3
  /\ last.ret[1][1] # last.ret[2][1]

\* C14: in every reachable state the arrays agree with the iterators: on a
\* BufferMap toArray() and toValues() hold what values() yields and toKeys()
\* what keys() yields; on a BufferSet toArray(), toKeys() and toValues() all
\* hold what keys() yields; and a call returns exactly that array.
C14_BulkAgreesWithLazy ==
  /\ cls = "BufferMap" =>
       /\ BufferMap_toArray(map) = BufferMap_values(map)
       /\ BufferMap_toKeys(map) = BufferMap_keys(map)
       /\ BufferMap_toValues(map) = BufferMap_values(map)
  /\ cls = "BufferSet" =>
       /\ BufferSet_toArray(map) = BufferSet_keys(map)
       /\ BufferSet_toKeys(map) = BufferSet_keys(map)
       /\ BufferSet_toValues(map) = BufferSet_keys(map)
  /\ last.op = "toArray" => last.ret = (IF cls = "BufferMap" THEN values(map) ELSE keys(map))
  /\ last.op = "toValues" => last.ret = (IF cls = "BufferMap" THEN values(map) ELSE keys(map))
  /\ last.op = "toKeys" => last.ret = keys(map)

\* toArray() has returned the two values of a BufferMap of two entries
C14_Witness ==
  /\ last.op = "toArray"
  /\ cls = "BufferMap"
  /\ Len(last.ret) = 2
  /\ last.ret = values(map)
  /\ last.ret[1] # last.ret[2]

\* C15: after the same sequence of add/delete/clear on a BufferSet and of
\* set(k, k)/delete/clear on a BufferMap, both have the same size, answer
\* has() alike for every key, and yield the same keys in the same order; the
\* set's values() is its keys(), and its entries() yields (key, key) for
\* each key in that order.
C15_SetMirrorsMap ==
  /\ BufferSet_size(mirror) = BufferMap_size(map)
  /\ \A k \in Keys :
       /\ BufferSet_has(mirror, k).ret = BufferMap_has(map, k).ret
       /\ BufferSet_has(mirror, k).err = BufferMap_has(map, k).err
  /\ BufferSet_keys(mirror) = BufferMap_keys(map)
  /\ BufferSet_values(mirror) = BufferSet_keys(mirror)
  /\ BufferSet_entries(mirror) =
       [i \in 1..Len(mirror) |-> Pair(BufferMap_keys(map)[i], BufferMap_keys(map)[i])]

\* both hold two entries, and the last call replaced the key object of the
\* first of them
C15_Witness ==
  /\ last.op = "set"
  /\ last.err = "none"
  /\ last.old # undefined
  /\ last.old.key.id # last.key.id
  /\ Len(mirror) = 2
  /\ Len(map) = 2
  /\ BufferSet_keys(mirror)[1] = last.key

\* C16: clear() leaves no entry, whatever the container held: size is 0,
\* has(k) is false and get(k) is undefined for every key, keys(), values(),
\* entries(), forEach and the arrays are empty; the container is then in the
\* state of a newly constructed one, so that the next key inserted is the
\* only one yielded.
C16_Clear ==
  [][/\ last'.op = "clear" =>
          /\ last'.err = "none"
          /\ size(map') = 0
          /\ map' = <<>>
          /\ \A k \in Keys :
               ByteBearing(k) =>
                 /\ has(map', k).ret = JSBool(FALSE)
                 /\ cls = "BufferMap" => get(map', k).ret = undefined
          /\ keys(map') = <<>> /\ values(map') = <<>> /\ entries(map') = <<>>
          /\ toKeys(map') = <<>> /\ toValues(map') = <<>> /\ toArray(map') = <<>>
          /\ forEach(map', [t |-> "function"]).ret = <<>>
     /\ (last.op = "clear" /\ last'.op \in {"set", "add"} /\ last'.err = "none") =>
          /\ size(map') = 1
          /\ keys(map') = <<last'.key>>]_vars

\* clear() was called on a container that held entries
C16_Witness ==
  /\ last.op = "clear"
  /\ last.old = JSBool(TRUE)
  /\ map = <<>>

\* the part of an entry that an iterator of the kind yields
Part(kind, entry) ==
  CASE kind = "keys" -> entry.first
    [] kind = "values" -> entry.second
    [] kind = "entries" -> entry

\* C17: an iterator obtained from keys(), values() or entries() yields at
\* its first next() the first entry the container holds at that moment, or
\* nothing if it holds none then, whatever it held when the iterator was
\* obtained; next() changes nothing in the container; and an iterator that
\* has finished yields nothing further, whatever is inserted afterwards.
C17_LazyLiveSinglePass ==
  [][last'.op = "next" =>
       /\ map' = map
       /\ iter.state \in {"suspendedStart", "created"} =>
            last'.ret = IF Len(map) = 0 THEN Exhausted
                        ELSE IterResult(Part(iter.kind, entries(map)[1]), FALSE)
       /\ iter.state = "done" => (last'.ret = Exhausted /\ iter'.state = "done")
       /\ last'.ret = Exhausted => iter'.state = "done"]_vars

\* an iterator obtained from an empty container has yielded entries inserted
\* before its first next(), has finished, and a next() made after further
\* entries were inserted has yielded nothing
C17_Witness ==
  /\ iter.state = "done"
  /\ iter.size0 = 0
  /\ iter.pos >= 1
  /\ Len(map) > iter.pos
  /\ last.op = "next"
  /\ last.ret = Exhausted

\* the place of a content in the order of first insertions
EverIndex(b) == CHOOSE i \in 1..Len(ever) : ever[i] = b

\* C18: a content that was present, was deleted and is inserted again is
\* yielded last, after the entries present at that moment, which keep their
\* order; it does not return to the place of its first insertion.
C18_ReinsertedLast ==
  [][(/\ last'.op \in {"set", "add"}
      /\ last'.err = "none"
      /\ Bytes(last'.key) \in Range(ever)
      /\ Bytes(last'.key) \notin Contents(map))
     => /\ keys(map') = Append(keys(map), last'.key)
        /\ ContentSeq(map')[Len(map')] = Bytes(last'.key)]_vars

\* keys() has yielded, last of three, the content that was the first ever
\* inserted
C18_Witness ==
  /\ last.op = "keys"
  /\ Len(last.ret) = 3
  /\ Len(ever) = 3
  /\ EverIndex(Bytes(last.ret[3])) = 1
  /\ EverIndex(Bytes(last.ret[1])) = 2

\* C19: in every reachable state has(k) is true exactly when keys() yields
\* a key with the bytes of k; no two keys yielded have the same bytes;
\* keys(), values() and entries() each yield size elements; and for every
\* (k, v) that entries() yields, get(k) returns v.
C19_QueriesAgreeWithIteration ==
  /\ \A k \in Keys :
       ByteBearing(k) =>
         has(map, k).ret = JSBool(\E y \in Range(keys(map)) : SameBytes(y, k))
  /\ \A i, j \in 1..Len(keys(map)) : SameBytes(keys(map)[i], keys(map)[j]) => i = j
  /\ Len(keys(map)) = size(map)
  /\ Len(values(map)) = size(map)
  /\ Len(entries(map)) = size(map)
  /\ cls = "BufferMap" =>
       \A i \in 1..Len(entries(map)) :
         get(map, entries(map)[i].first).ret = entries(map)[i].second

\* has() has answered true for a key object that is not among the three
\* keys the BufferMap yields
C19_Witness ==
  /\ cls = "BufferMap"
  /\ size(map) = 3
  /\ last.op = "has"
  /\ last.ret = JSBool(TRUE)
  /\ \A y \in Range(keys(map)) : y.id # last.key.id
  /\ values(map)[1] # values(map)[2]

\* C20: get tells a missing entry by the entry, not by the value: after
\* set(k, v) with any v, falsy ones included, get(k) returns v and has(k) is
\* true; every value entries() yields is what get returns for its key; and
\* get has returned undefined for a key that is present only when undefined
\* is the value stored under it.
C20_FalsyValues ==
  /\ (last.op = "set" /\ last.err = "none") =>
       /\ get(map, last.key).ret = last.value
       /\ has(map, last.key).ret = JSBool(TRUE)
  /\ \A i \in 1..Len(entries(map)) :
       get(map, entries(map)[i].first).ret = entries(map)[i].second
  /\ (last.op = "get" /\ last.ret = undefined /\ has(map, last.key).ret = JSBool(TRUE)) =>
       \E i \in 1..Len(entries(map)) :
         /\ SameBytes(entries(map)[i].first, last.key)
         /\ entries(map)[i].second = undefined
  /\ (last.op = "get" /\ has(map, last.key).ret = JSBool(FALSE)) => last.ret = undefined

\* get has returned the stored 0 from a map that also holds false, null or
\* undefined under other keys
C20_Witness ==
  /\ last.op = "get"
  /\ last.ret = JSNumber(0)
  /\ size(map) = 3
  /\ \A i \in 1..3 : Not(values(map)[i])
  /\ undefined \in Range(values(map))

=============================================================================
